---------------------------- MODULE Spec2Model ----------------------------
(***************************************************************************)
(* GeoJSONWriter (src/src/geojson_writer.rs): a wrapper that owns a native *)
(* GEOSGeoJSONWriter pointer and shares an Arc<ContextHandle>.             *)
(*                                                                         *)
(* The native side is kept as state: which contexts and native writers     *)
(* exist, the strong count of each context's Arc, how often each context   *)
(* and native writer was released. A write is two steps, the native call   *)
(* and its return, so that calls from several threads interleave. `ret`    *)
(* shows what the last call returned and the native call it made, with the *)
(* liveness of that call's arguments at the time; it is cleared (Return)   *)
(* before the next call is shown.                                          *)
(***************************************************************************)
EXTENDS Integers, Sequences, FiniteSets

\* ------------------------------------------------------------- bounds
MaxCtx == 2          \* contexts ever initialised in one run
MaxWriters == 2      \* wrappers ever constructed in one run
MaxUserArcs == 1     \* Arc<ContextHandle> clones the caller holds at a time

Ctx == 1..MaxCtx
Writers == 1..MaxWriters
Ptr == 1..MaxWriters              \* one native writer per wrapper at most
NullPtr == 0
NoCtx == NullPtr                  \* an unborn wrapper has no context

Errors == {"e1"}                  \* texts the native error handler may record
NoError == "none"                 \* Option::None of get_last_error
Inputs == {<<"point", -1>>, <<"line", 2>>}   \* (geometry, indent) handed to write
InitErrors == {"InitErrA", "InitErrB"}   \* errors ContextHandle::init_e may return

VARIABLES
    nCtx,          \* number of contexts initialised so far (ids 1..nCtx)
    ctxStrong,     \* [Ctx -> Nat]: strong count of the Arc around each context
    ctxReleases,   \* [Ctx -> 0..2]: how often the ContextHandle was dropped
    lastError,     \* [Ctx -> Errors \cup {NoError}]: the recorded native error
    userArcs,      \* [Ctx -> Nat]: Arc clones held by the caller
    nW,            \* number of wrappers constructed so far (ids 1..nW)
    wState,        \* [Writers -> {"unborn", "live", "dropped"}]
    wPtr,          \* [Writers -> Ptr \cup {NullPtr}]: field ptr
    wCtx,          \* [Writers -> Ctx \cup {NoCtx}]: field context (NoCtx once dropped)
    wCtxSet,       \* [Writers -> BOOLEAN]: set_context_handle was called on it
    wWriting,      \* [Writers -> 0..2]: write calls in progress on the wrapper
    wCall,         \* [Writers -> record]: the native write call in progress
    nPtr,          \* number of native writers created so far (ids 1..nPtr)
    pCreateCtx,    \* [Ptr -> Ctx \cup {NoCtx}]: context given to create_r
    pDestroys,     \* [Ptr -> 0..2]: destroy_r calls made on the native writer
    ret            \* what the last step returned and the native call it made

vars == <<nCtx, ctxStrong, ctxReleases, lastError, userArcs, nW, wState, wPtr,
          wCtx, wCtxSet, wWriting, wCall, nPtr, pCreateCtx, pDestroys, ret>>

ctxVars == <<nCtx, ctxStrong, ctxReleases, lastError, userArcs>>
wVars == <<nW, wState, wPtr, wCtx, wCtxSet, wWriting, wCall>>
pVars == <<nPtr, pCreateCtx, pDestroys>>

\* ------------------------------------------------------------- helpers
NoInput == <<"none", 0>>

\* One native call on a writer handle: its context and pointer arguments,
\* whether they were live when the call was made, the context the pointer was
\* created with, whether set_context_handle had been called on the wrapper,
\* the input it carries and how often the callee was invoked.
Call(c, p, cLive, pLive, made, set, in, n) ==
    [ctx |-> c, ptr |-> p, ctxLive |-> cLive, ptrLive |-> pLive, createdWith |-> made,
     ctxSet |-> set, input |-> in, ncalls |-> n]
NoCall == Call(NoCtx, NullPtr, FALSE, FALSE, NoCtx, FALSE, NoInput, 0)

\* The outcome of a step: the operation, its wrapper, its Ok / Err value, and
\* `call`, the call it made of the wrapper's native function (create_r,
\* writeGeometry_r, destroy_r), with ncalls the number of invocations; init is
\* what ContextHandle::init_e gave, native what the native call gave ("null" or
\* "ptr"), lastErr what the context had recorded when the native call had
\* returned.
NoRet == [op |-> "none", w |-> 0, kind |-> "none", err |-> "none", msg |-> <<>>,
          val |-> <<>>, call |-> NoCall, init |-> "none", native |-> "none",
          lastErr |-> NoError]

\* No returned value is waiting for the caller: the model shows the outcome
\* of one call at a time.
Idle == ret = NoRet

CtxAlive(c) == c \in 1..nCtx /\ ctxReleases[c] = 0
PtrAlive(p) == p \in 1..nPtr /\ pDestroys[p] = 0
CreatedWith(p) == IF p \in Ptr THEN pCreateCtx[p] ELSE NoCtx

\* Dropping one Arc<ContextHandle>: the strong count goes down and the
\* ContextHandle is dropped when the last strong reference goes.
ArcDropStrong(strong, c) == [strong EXCEPT ![c] = IF @ > 0 THEN @ - 1 ELSE 0]
ArcDropReleases(strong, rel, c) ==
    IF strong[c] <= 1 THEN [rel EXCEPT ![c] = IF @ < 2 THEN @ + 1 ELSE 2] ELSE rel

\* The recorded error goes with the ContextHandle that held it.
ArcDropErrors(strong, errs, c) ==
    IF strong[c] <= 1 THEN [errs EXCEPT ![c] = NoError] ELSE errs

\* Arc::new around a freshly owned ContextHandle, Arc::clone of a held one.
ArcNew(strong, c) == [strong EXCEPT ![c] = 1]
ArcClone(strong, c) == [strong EXCEPT ![c] = @ + 1]

\* A context handle as a callee sees it: its identity and its recorded error.
Handle(c, e) == [id |-> c, last_error |-> e]

\* ContextHandle::get_last_error: Some(text) or None.
get_last_error(context) == context.last_error

\* What a failing native call may leave in the context: the error handler
\* records a text, or the recorded error stays as it was.
Recorded(c) == {lastError[c]} \cup Errors

\* ------------------------------------------------------------- accessors
\* Variant: the raw context is the one the native writer was created with.
get_raw_context_created(w) == CreatedWith(wPtr[w])

get_raw_context(w) == wCtx[w]
get_context_handle(w) == wCtx[w]
as_raw_mut(w) == wPtr[w]

\* Variant: the context is handed out without counting the new reference.
clone_context_uncounted(w) == [arc |-> wCtx[w], strong |-> ctxStrong]

\* Arc::clone(&self.context): the Arc returned and the new strong counts.
clone_context(w) == [arc |-> wCtx[w], strong |-> ArcClone(ctxStrong, wCtx[w])]

\* Variant: `&self` in place of `&mut self`: a live wrapper is enough.
ExclusiveAccessUnchecked(w) == wState[w] = "live"

\* `&mut self` (write, set_context_handle) and ownership (drop) need the wrapper
\* with no other borrow of it outstanding; `&self` needs no `&mut` outstanding.
ExclusiveAccess(w) == wState[w] = "live" /\ wWriting[w] = 0
SharedAccess(w) == wState[w] = "live" /\ wWriting[w] = 0

\* ------------------------------------------------------------- construction
\* Variant: no null check.
new_from_raw_unchecked(ptr, context, caller) ==
    [kind |-> "Ok", err |-> "none", msg |-> <<>>, ptr |-> ptr]

\* Variant: the last error is left out of the message.
new_from_raw_no_extra(ptr, context, caller) ==
    IF ptr = NullPtr
    THEN [kind |-> "Err", err |-> "NoConstructionFromNullPtr",
          msg |-> <<"GeoJSONWriter::", caller>>, ptr |-> NullPtr]
    ELSE [kind |-> "Ok", err |-> "none", msg |-> <<>>, ptr |-> ptr]

\* The Err / Ok value of new_from_raw.
new_from_raw(ptr, context, caller) ==
    IF ptr = NullPtr
    THEN LET extra == IF get_last_error(context) # NoError
                      THEN <<"\nLast error: ", get_last_error(context)>>
                      ELSE <<>>
         IN [kind |-> "Err", err |-> "NoConstructionFromNullPtr",
             msg |-> <<"GeoJSONWriter::", caller>> \o extra, ptr |-> NullPtr]
    ELSE [kind |-> "Ok", err |-> "none", msg |-> <<>>, ptr |-> ptr]

\* new_with_context on context c, whose Arc the call owns: `strong`, `arcs` and
\* `n` are the strong counts, the caller's clones and the number of contexts on
\* entry. GEOSGeoJSONWriter_create_r returns null (and may record an error) or
\* a fresh native writer; on Err the Arc handed in is dropped with the call.
new_with_context(op, c, strong, arcs, n, cLive, isNull, rec) ==
    LET ptr == IF isNull THEN NullPtr ELSE nPtr + 1
        err == IF isNull THEN rec ELSE lastError[c]
        r == new_from_raw(ptr, Handle(c, err), "new_with_context")
        w == nW + 1
        errs == [lastError EXCEPT ![c] = err]
        out == [NoRet EXCEPT !.op = op, !.lastErr = err,
                             !.init = IF op = "new" THEN "Ok" ELSE "none",
                             !.native = IF isNull THEN "null" ELSE "ptr",
                             !.call = Call(c, ptr, cLive, ~isNull,
                                           IF isNull THEN NoCtx ELSE c, FALSE,
                                           NoInput, 1)]
    IN /\ Idle
       /\ ~isNull => nPtr < MaxWriters
       /\ r.kind = "Ok" => nW < MaxWriters
       /\ nCtx' = n
       /\ userArcs' = arcs
       /\ nPtr' = IF isNull THEN nPtr ELSE ptr
       /\ pCreateCtx' = IF isNull THEN pCreateCtx ELSE [pCreateCtx EXCEPT ![ptr] = c]
       /\ UNCHANGED pDestroys
       /\ IF r.kind = "Ok"
          THEN /\ nW' = w
               /\ wState' = [wState EXCEPT ![w] = "live"]
               /\ wPtr' = [wPtr EXCEPT ![w] = r.ptr]
               /\ wCtx' = [wCtx EXCEPT ![w] = c]
               /\ ctxStrong' = strong
               /\ lastError' = errs
               /\ UNCHANGED <<ctxReleases, wCtxSet, wWriting, wCall>>
               /\ ret' = [out EXCEPT !.kind = "Ok", !.w = w]
          ELSE /\ ctxStrong' = ArcDropStrong(strong, c)
               /\ ctxReleases' = ArcDropReleases(strong, ctxReleases, c)
               /\ lastError' = ArcDropErrors(strong, errs, c)
               /\ UNCHANGED wVars
               /\ ret' = [out EXCEPT !.kind = "Err", !.err = r.err, !.msg = r.msg]

\* Variant: the init error is replaced by the wrapper's own construction error.
NewErrRewrapped(init) ==
    [NoRet EXCEPT !.op = "new", !.kind = "Err", !.err = "NoConstructionFromNullPtr",
                  !.init = init]

\* The arm `Err(e) => Err(e)` of new: what new returns when init_e gave Err(init).
NewErr(init) == [NoRet EXCEPT !.op = "new", !.kind = "Err", !.err = init, !.init = init]

\* GeoJSONWriter::new: ContextHandle::init_e fails with an error, which is
\* returned as it is, or gives a fresh context that goes into a new Arc and on
\* to new_with_context.
New ==
    \E init \in {"Ok"} \cup InitErrors :
        IF init = "Ok"
        THEN /\ nCtx < MaxCtx
             /\ \E isNull \in BOOLEAN : \E rec \in {NoError} \cup Errors :
                   /\ ~isNull => rec = NoError
                   /\ new_with_context("new", nCtx + 1, ArcNew(ctxStrong, nCtx + 1),
                                       userArcs, nCtx + 1, TRUE, isNull, rec)
        ELSE /\ Idle
             /\ ret' = NewErr(init)
             /\ UNCHANGED <<ctxVars, wVars, pVars>>

\* GeoJSONWriter::new_with_context(context): the caller moves in an Arc it holds.
NewWithContext(c) ==
    /\ c \in 1..nCtx
    /\ userArcs[c] > 0
    /\ \E isNull \in BOOLEAN : \E rec \in Recorded(c) :
          /\ ~isNull => rec = lastError[c]
          /\ new_with_context("new_with_context", c, ctxStrong,
                              [userArcs EXCEPT ![c] = @ - 1], nCtx, CtxAlive(c),
                              isNull, rec)

\* ------------------------------------------------------------- write
\* functions::managed_string(ptr, context, caller): a null result becomes a typed
\* error carrying the context's last error, if any; a string is copied into an
\* owned value (and the native buffer is released).
managed_string(isNull, str, context, caller) ==
    IF isNull
    THEN LET extra == IF get_last_error(context) # NoError
                      THEN <<"\nLast error: ", get_last_error(context)>>
                      ELSE <<>>
         IN [kind |-> "Err", err |-> "OperationFailure", msg |-> <<caller>> \o extra,
             val |-> <<>>]
    ELSE [kind |-> "Ok", err |-> "none", msg |-> <<>>, val |-> str]

\* What GEOSGeoJSONWriter_writeGeometry_r writes for a geometry and an indent.
NativeJson(in) == <<"GeoJSON">> \o in

\* write, up to its native call: the wrapper is borrowed exclusively and
\* GEOSGeoJSONWriter_writeGeometry_r is invoked once with the wrapper's raw
\* context and raw pointer.
WriteBegin(w, in) ==
    LET c == get_raw_context(w)
        p == as_raw_mut(w)
    IN /\ Idle
       /\ ExclusiveAccess(w)
       /\ wWriting[w] < 2
       /\ wWriting' = [wWriting EXCEPT ![w] = @ + 1]
       /\ wCall' = [wCall EXCEPT ![w] = Call(c, p, CtxAlive(c), PtrAlive(p),
                                             CreatedWith(p), wCtxSet[w], in, 1)]
       /\ UNCHANGED <<ctxVars, pVars, nW, wState, wPtr, wCtx, wCtxSet, ret>>

\* write, from the return of the native call: null (the context may have
\* recorded an error) or a string, handed to managed_string with the
\* wrapper's context handle; the exclusive borrow ends. `again` is the number
\* of further invocations of the native function made before returning.
WriteReturn(w, isNull, rec, again) ==
    LET a == [wCall[w] EXCEPT !.ncalls = @ + again]
        err == IF isNull THEN rec ELSE lastError[a.ctx]
        errs == [lastError EXCEPT ![a.ctx] = err]
        h == get_context_handle(w)
        r == managed_string(isNull, NativeJson(a.input), Handle(h, errs[h]),
                            "GeoJSONWriter::write")
    IN /\ Idle
       /\ wWriting[w] > 0
       /\ a.ctx \in Ctx
       /\ rec \in Recorded(a.ctx)
       /\ ~isNull => rec = lastError[a.ctx]
       /\ lastError' = errs
       /\ wWriting' = [wWriting EXCEPT ![w] = @ - 1]
       /\ wCall' = [wCall EXCEPT ![w] = NoCall]
       /\ ret' = [NoRet EXCEPT !.op = "write", !.w = w, !.kind = r.kind, !.err = r.err,
                               !.msg = r.msg, !.val = r.val, !.call = a,
                               !.native = IF isNull THEN "null" ELSE "ptr",
                               !.lastErr = errs[h]]
       /\ UNCHANGED <<nCtx, ctxStrong, ctxReleases, userArcs, pVars, nW, wState, wPtr,
                      wCtx, wCtxSet>>

\* Variant: a null result is retried once.
WriteEndRetry(w, isNull, rec) == WriteReturn(w, isNull, rec, IF isNull THEN 1 ELSE 0)

\* write has no loop: the native function is not invoked again.
WriteEnd(w, isNull, rec) == WriteReturn(w, isNull, rec, 0)

\* ------------------------------------------------------------- drop
\* Variant: drop without the native destroy.
destroy_skipped(p) == pDestroys

\* GEOSGeoJSONWriter_destroy_r on native writer p: the destroy counts after it.
GEOSGeoJSONWriter_destroy_r(p) ==
    IF p \in Ptr THEN [pDestroys EXCEPT ![p] = IF @ < 2 THEN @ + 1 ELSE 2]
    ELSE pDestroys

\* Drop for GeoJSONWriter: GEOSGeoJSONWriter_destroy_r on the raw context and
\* the raw pointer, then the fields go: the wrapper's Arc is dropped.
DropWriter(w) ==
    LET c == get_raw_context(w)
        p == as_raw_mut(w)
    IN /\ Idle
       /\ ExclusiveAccess(w)
       /\ pDestroys' = GEOSGeoJSONWriter_destroy_r(p)
       /\ wState' = [wState EXCEPT ![w] = "dropped"]
       /\ wCtx' = [wCtx EXCEPT ![w] = NoCtx]
       /\ wCtxSet' = [wCtxSet EXCEPT ![w] = FALSE]
       /\ ctxStrong' = ArcDropStrong(ctxStrong, wCtx[w])
       /\ ctxReleases' = ArcDropReleases(ctxStrong, ctxReleases, wCtx[w])
       /\ ret' = [NoRet EXCEPT !.op = "drop", !.w = w,
                               !.call = Call(c, p, CtxAlive(c), PtrAlive(p),
                                             CreatedWith(p), wCtxSet[w], NoInput, 1)]
       /\ lastError' = ArcDropErrors(ctxStrong, lastError, wCtx[w])
       /\ UNCHANGED <<nCtx, userArcs, nW, wPtr, wWriting, wCall, nPtr, pCreateCtx>>

\* ------------------------------------------------------------- context
\* Variant: every wrapper sharing the old context is moved to the new one.
set_context_handle_shared(w, c) ==
    [x \in Writers |-> IF wCtx[x] = wCtx[w] THEN c ELSE wCtx[x]]

\* self.context = Arc::new(context): the context fields after it.
set_context_handle(w, c) == [wCtx EXCEPT ![w] = c]

\* set_context_handle(context): the caller hands over a ContextHandle it owns
\* (a fresh one, whatever error it has recorded so far); it goes into a new Arc
\* that replaces the field, and the Arc held before is dropped.
SetContextHandle(w, e) ==
    LET c == nCtx + 1
        old == wCtx[w]
        strong == ArcNew(ctxStrong, c)
    IN /\ Idle
       /\ ExclusiveAccess(w)
       /\ nCtx < MaxCtx
       /\ nCtx' = c
       /\ lastError' = ArcDropErrors(strong, [lastError EXCEPT ![c] = e], old)
       /\ wCtx' = set_context_handle(w, c)
       /\ wCtxSet' = [wCtxSet EXCEPT ![w] = TRUE]
       /\ ctxStrong' = ArcDropStrong(strong, old)
       /\ ctxReleases' = ArcDropReleases(strong, ctxReleases, old)
       /\ ret' = [NoRet EXCEPT !.op = "set_context_handle", !.w = w, !.val = <<c, old>>]
       /\ UNCHANGED <<userArcs, nW, wState, wPtr, wWriting, wCall, pVars>>

\* The number of Arc clones the caller holds.
RECURSIVE SumTo(_, _)
SumTo(f, n) == IF n = 0 THEN 0 ELSE f[n] + SumTo(f, n - 1)
UserArcsHeld == SumTo(userArcs, MaxCtx)

\* Variant: the whole wrapper is copied, pointer included, with a cloned Arc.
CloneContextCopiesWriter(w) ==
    /\ Idle
    /\ SharedAccess(w)
    /\ nW < MaxWriters
    /\ nW' = nW + 1
    /\ wState' = [wState EXCEPT ![nW + 1] = "live"]
    /\ wPtr' = [wPtr EXCEPT ![nW + 1] = wPtr[w]]
    /\ wCtx' = [wCtx EXCEPT ![nW + 1] = wCtx[w]]
    /\ ctxStrong' = ArcClone(ctxStrong, wCtx[w])
    /\ UNCHANGED <<nCtx, ctxReleases, lastError, userArcs, wCtxSet, wWriting, wCall,
                   pVars, ret>>

\* clone_context: another Arc on the wrapper's context, held by the caller.
CloneContext(w) ==
    /\ Idle
    /\ SharedAccess(w)
    /\ UserArcsHeld < MaxUserArcs
    /\ ctxStrong' = clone_context(w).strong
    /\ userArcs' = [userArcs EXCEPT ![clone_context(w).arc] = @ + 1]
    /\ UNCHANGED <<nCtx, ctxReleases, lastError, wVars, pVars, ret>>

\* The caller drops an Arc it got from clone_context.
DropUserArc(c) ==
    /\ Idle
    /\ c \in 1..nCtx
    /\ userArcs[c] > 0
    /\ userArcs' = [userArcs EXCEPT ![c] = @ - 1]
    /\ ctxStrong' = ArcDropStrong(ctxStrong, c)
    /\ ctxReleases' = ArcDropReleases(ctxStrong, ctxReleases, c)
    /\ lastError' = ArcDropErrors(ctxStrong, lastError, c)
    /\ UNCHANGED <<nCtx, wVars, pVars, ret>>

\* The result of the last call goes to the caller: GResult values are returned
\* by value and the wrapper keeps nothing of them.
Return ==
    /\ ~Idle
    /\ ret' = NoRet
    /\ UNCHANGED <<ctxVars, wVars, pVars>>

Init ==
    /\ nCtx = 0
    /\ ctxStrong = [c \in Ctx |-> 0]
    /\ ctxReleases = [c \in Ctx |-> 0]
    /\ lastError = [c \in Ctx |-> NoError]
    /\ userArcs = [c \in Ctx |-> 0]
    /\ nW = 0
    /\ wState = [w \in Writers |-> "unborn"]
    /\ wPtr = [w \in Writers |-> NullPtr]
    /\ wCtx = [w \in Writers |-> NoCtx]
    /\ wCtxSet = [w \in Writers |-> FALSE]
    /\ wWriting = [w \in Writers |-> 0]
    /\ wCall = [w \in Writers |-> NoCall]
    /\ nPtr = 0
    /\ pCreateCtx = [p \in Ptr |-> NoCtx]
    /\ pDestroys = [p \in Ptr |-> 0]
    /\ ret = NoRet

Next ==
    \/ New
    \/ \E c \in Ctx : NewWithContext(c)
    \/ \E w \in Writers : \E in \in Inputs : WriteBegin(w, in)
    \/ \E w \in Writers : \E isNull \in BOOLEAN : \E rec \in {NoError} \cup Errors :
          WriteEnd(w, isNull, rec)
    \/ \E w \in Writers : DropWriter(w)
    \/ \E w \in Writers : \E e \in {NoError} \cup Errors : SetContextHandle(w, e)
    \/ \E w \in Writers : CloneContext(w)
    \/ \E c \in Ctx : DropUserArc(c)
    \/ Return

Spec == Init /\ [][Next]_vars
\* ------------------------------------------------------------- properties
Live(w) == wState[w] = "live"
IsCtor == ret.op \in {"new", "new_with_context"}
Holders(c) == Cardinality({w \in Writers : Live(w) /\ wCtx[w] = c}) + userArcs[c]

\* C1: the native writer of every constructed wrapper is destroyed exactly once,
\* by the drop of the wrapper: not before (a live wrapper's pointer has no
\* destroy), not twice, and never left out for a dropped wrapper, whatever
\* writes, clone_context and set_context_handle calls came in between.
C1_DestroyedExactlyOnce ==
    /\ \A w \in Writers :
          /\ Live(w) => wPtr[w] \in Ptr /\ pDestroys[wPtr[w]] = 0
          /\ wState[w] = "dropped" => wPtr[w] \in Ptr /\ pDestroys[wPtr[w]] = 1
    /\ \A p \in Ptr : pDestroys[p] <= 1
    /\ ret.op = "drop" =>
          /\ ret.call.ptr = wPtr[ret.w]
          /\ ret.call.ncalls = 1
          /\ wState[ret.w] = "dropped"

\* A wrapper that had its context replaced has just been dropped, and its native
\* writer has its one destroy.
C1_Witness ==
    /\ ret.op = "drop"
    /\ ret.call.ctxSet
    /\ pDestroys[ret.call.ptr] = 1

\* C2: every live wrapper holds a non-null native pointer; a constructor whose
\* native call returned null returns Err and creates no wrapper, and the native
\* destroy is never given a null pointer.
C2_NonNullPointer ==
    /\ [](/\ \A w \in Writers : Live(w) => wPtr[w] # NullPtr
          /\ (IsCtor /\ ret.native = "null") => ret.kind = "Err"
          /\ ret.op = "drop" => ret.call.ptr # NullPtr)
    /\ [][(ret'.op \in {"new", "new_with_context"} /\ ret'.native = "null")
             => UNCHANGED <<nW, wState, wPtr, wCtx>>]_vars

\* A constructor has just failed on a null pointer while a wrapper is alive.
C2_Witness ==
    /\ IsCtor
    /\ ret.native = "null"
    /\ \E w \in Writers : Live(w)

\* C3: on a null pointer construction returns Err(NoConstructionFromNullPtr)
\* whose message is "GeoJSONWriter::" and the caller, followed by
\* "\nLast error: " and the context's recorded error exactly when it has one.
C3_NullPtrError ==
    (IsCtor /\ ret.native = "null") =>
        /\ ret.kind = "Err"
        /\ ret.err = "NoConstructionFromNullPtr"
        /\ CtxAlive(ret.call.ctx) => ret.lastErr = lastError[ret.call.ctx]
        /\ ret.msg[1] = "GeoJSONWriter::"
        /\ ret.msg[2] = "new_with_context"
        /\ ret.lastErr = NoError => Len(ret.msg) = 2
        /\ ret.lastErr # NoError =>
              /\ Len(ret.msg) = 4
              /\ ret.msg[3] = "\nLast error: "
              /\ ret.msg[4] = ret.lastErr

\* new_with_context has failed on a shared context that has an error recorded.
C3_Witness ==
    /\ ret.op = "new_with_context"
    /\ ret.native = "null"
    /\ CtxAlive(ret.call.ctx)
    /\ lastError[ret.call.ctx] \in Errors
    /\ Len(ret.msg) = 4

\* C4: when ContextHandle::init_e fails, new returns that error as it is and
\* makes no call of the native constructor (nothing of the wrappers, contexts
\* and native writers changes); a native constructor that fails on the given
\* context makes new_with_context return Err without a wrapper.
C4_InitErrorReturned ==
    /\ [](/\ (ret.op = "new" /\ ret.init \in InitErrors) =>
                /\ ret.kind = "Err"
                /\ ret.err = ret.init
                /\ ret.call = NoCall
                /\ ret.native = "none"
          /\ (ret.op = "new_with_context" /\ ret.native = "null") =>
                ret.kind = "Err" /\ ret.w = 0)
    /\ [][(ret'.op = "new" /\ ret'.init \in InitErrors)
             => UNCHANGED <<ctxVars, wVars, pVars>>]_vars

\* new has just failed on the second of the init errors, with a wrapper alive.
C4_Witness ==
    /\ ret.op = "new"
    /\ ret.init = "InitErrB"
    /\ \E w \in Writers : Live(w)

\* C5: a context is released exactly once, when its last holder (wrapper or
\* clone held by the caller) has gone, in whatever order the holders go: the
\* strong count is the number of holders, a context with a holder is not
\* released, a context without one is (so a failed new_with_context has given
\* back the reference it was handed).
C5_ContextLifetime ==
    \A c \in 1..nCtx :
        /\ ctxStrong[c] = Holders(c)
        /\ ctxReleases[c] <= 1
        /\ Holders(c) > 0 => ctxReleases[c] = 0
        /\ Holders(c) = 0 => ctxReleases[c] = 1

\* A wrapper sharing its context with another wrapper has just been dropped and
\* the context is still alive for the other.
C5_Witness ==
    /\ ret.op = "drop"
    /\ CtxAlive(ret.call.ctx)
    /\ \E w \in Writers : Live(w) /\ wCtx[w] = ret.call.ctx

\* C6: a write invokes the native function once and returns Err with the
\* context's last error, if any, when it gave null, and Ok with the string it
\* wrote otherwise; either way the wrapper keeps its pointer and its context,
\* can be written to again and has not been destroyed.
C6_WriteOutcome ==
    /\ [](ret.op = "write" =>
            /\ ret.call.ncalls = 1
            /\ ret.native = "null" =>
                  /\ ret.kind = "Err"
                  /\ ret.lastErr = lastError[wCtx[ret.w]]
                  /\ ret.lastErr # NoError =>
                        /\ Len(ret.msg) = 3
                        /\ ret.msg[Len(ret.msg)] = ret.lastErr
                  /\ ret.lastErr = NoError => Len(ret.msg) = 1
            /\ ret.native = "ptr" =>
                  /\ ret.kind = "Ok"
                  /\ ret.val = <<"GeoJSON", ret.call.input[1], ret.call.input[2]>>
            /\ Live(ret.w)
            /\ wPtr[ret.w] = ret.call.ptr
            /\ wCtx[ret.w] = ret.call.ctx
            /\ pDestroys[ret.call.ptr] = 0
            /\ wWriting[ret.w] = 0)
    /\ [][(wWriting' # wWriting) =>
             UNCHANGED <<wState, wPtr, wCtx, pDestroys, ctxStrong, ctxReleases>>]_vars

\* A write has just failed with a recorded error on a wrapper that shares its
\* context with another live wrapper.
C6_Witness ==
    /\ ret.op = "write"
    /\ ret.kind = "Err"
    /\ ret.lastErr \in Errors
    /\ \E w \in Writers : w # ret.w /\ Live(w) /\ wCtx[w] = wCtx[ret.w]

\* C7: no two live wrappers hold the same native pointer, and a wrapper only
\* ever comes with a native writer created for it in the same step (so
\* clone_context, get_context_handle and write make no second owner).
C7_ExclusiveOwner ==
    /\ [](\A w1, w2 \in Writers :
            (w1 # w2 /\ Live(w1) /\ Live(w2)) => wPtr[w1] # wPtr[w2])
    /\ [][(wState' # wState \/ wPtr' # wPtr) =>
             \/ /\ nW' = nW + 1
                /\ nPtr' = nPtr + 1
                /\ wPtr' = [wPtr EXCEPT ![nW'] = nPtr']
                /\ wState' = [wState EXCEPT ![nW'] = "live"]
             \/ /\ wPtr' = wPtr
                /\ \E w \in Writers : wState' = [wState EXCEPT ![w] = "dropped"]]_vars

\* Two live wrappers share one context, of which the caller holds a clone too.
C7_Witness ==
    \E w1, w2 \in Writers :
        /\ w1 # w2
        /\ Live(w1) /\ Live(w2)
        /\ wCtx[w1] = wCtx[w2]
        /\ userArcs[wCtx[w1]] > 0
        /\ wPtr[w1] # wPtr[w2]

\* C8: set_context_handle makes the supplied context the wrapper's context,
\* with the wrapper as its only holder, and that is what get_context_handle,
\* get_raw_context and clone_context give afterwards; the native pointer and the
\* native writers are untouched; the reference to the previous context is
\* released, which frees it iff it was the last one; the other wrappers keep
\* their contexts.
C8_SetContextHandle ==
    [][(ret'.op = "set_context_handle" /\ ret.op # "set_context_handle") =>
          \A w \in Writers, new \in Ctx, old \in Ctx :
           (w = ret'.w /\ new = ret'.val[1] /\ old = wCtx[w]) =>
             /\ new \notin 1..nCtx
             /\ wCtx'[w] = new
             /\ get_context_handle(w)' = new
             /\ get_raw_context(w)' = new
             /\ clone_context(w)'.arc = new
             /\ ctxStrong'[new] = 1
             /\ Holders(new)' = 1
             /\ ctxReleases'[new] = 0
             /\ UNCHANGED <<wState, wPtr, nW, pVars>>
             /\ ctxStrong'[old] = ctxStrong[old] - 1
             /\ ctxReleases'[old] = (IF ctxStrong[old] = 1 THEN 1 ELSE 0)
             /\ \A x \in Writers : x # w => wCtx'[x] = wCtx[x]]_vars

\* set_context_handle has just been called on a wrapper whose previous context
\* is kept alive by another wrapper.
C8_Witness ==
    /\ ret.op = "set_context_handle"
    /\ CtxAlive(ret.val[2])
    /\ \E w \in Writers : w # ret.w /\ Live(w) /\ wCtx[w] = ret.val[2]

\* The native calls a wrapper makes on its native writer: the write in progress
\* on w, and the write or destroy the last step completed.
CallsOnHandle ==
    {wCall[w] : w \in {x \in Writers : wWriting[x] > 0}}
        \cup (IF ret.op \in {"write", "drop"} THEN {ret.call} ELSE {})

\* C9 as stated: every write and destroy passes the context the native writer
\* was created with, and that context is alive at the time of the call.
C9_CreationContextPassed ==
    \A a \in CallsOnHandle : a.ctx = a.createdWith /\ a.ctxLive

\* C9, amended: every write and destroy passes the context the wrapper holds at
\* the time of the call, which is alive then; it is the context the native
\* writer was created with as long as set_context_handle has not been called
\* on the wrapper.
C9_CurrentContextPassed ==
    /\ \A a \in CallsOnHandle :
          /\ a.ctxLive
          /\ ~a.ctxSet => a.ctx = a.createdWith
    /\ \A w \in Writers :
          /\ wWriting[w] > 0 => wCall[w].ctx = wCtx[w] /\ CtxAlive(wCall[w].ctx)
          /\ (Live(w) /\ ~wCtxSet[w]) => wCtx[w] = CreatedWith(wPtr[w])

\* A wrapper whose context was replaced, and whose creation context is released
\* has a write in progress.
C9_Witness ==
    \E w \in Writers :
        /\ wWriting[w] > 0
        /\ wCall[w].ctxSet
        /\ wCall[w].ctx # wCall[w].createdWith
        /\ ~CtxAlive(wCall[w].createdWith)

\* C10: no native call is made on a destroyed native writer or with a released
\* context: the pointer and the context are live when a write or a destroy is
\* called and stay live while a write is in progress; the context is live when
\* the native constructor is called; at most one write is in progress on a
\* wrapper, and none when it is dropped.
C10_NoUseAfterRelease ==
    /\ \A a \in CallsOnHandle : a.ptrLive /\ a.ctxLive
    /\ (IsCtor /\ ret.call.ncalls > 0) => ret.call.ctxLive
    /\ \A w \in Writers :
          /\ wWriting[w] <= 1
          /\ wWriting[w] > 0 =>
                /\ Live(w)
                /\ PtrAlive(wCall[w].ptr)
                /\ CtxAlive(wCall[w].ctx)
    /\ ret.op = "drop" => wWriting[ret.w] = 0

\* A wrapper has just been dropped while a write is in progress on another
\* wrapper that shares its context.
C10_Witness ==
    /\ ret.op = "drop"
    /\ \E w \in Writers : wWriting[w] = 1 /\ wCall[w].ctx = ret.call.ctx

=============================================================================
